---- MODULE Spec2Model ----
(***************************************************************************)
(* Model of synchronizedSequenceShow.py: one scheduler thread              *)
(* (control_thread) walks the choreography table `sequence` against a step *)
(* counter and puts the due commands on per-Crazyflie queues               *)
(* (controlQueues); one worker per Crazyflie (crazyflie_control) takes the *)
(* commands off its queue and turns them into calls of the high level      *)
(* commander and of the parameter interface.                               *)
(*                                                                         *)
(* Threads interleave at queue operations: a put, a get, and the sleeps    *)
(* between them.  Python lists are 0-based, so pointer, cf_id and the      *)
(* queue indices keep their source values and sequence[pointer] of the     *)
(* source is sequence[pointer + 1] here.                                   *)
(***************************************************************************)
EXTENDS Integers, Sequences, FiniteSets, TLC

\* Bounds of the model.
NumAgents == 2
MaxLen == 2
MaxStep == 2
MaxSetpoints == 2

VARIABLES
  sequence,       \* the choreography table: <<step, cf_id, command>> entries
  controlQueues,  \* controlQueues[i]: the FIFO of Crazyflie i
  pointer,        \* control_thread: index of the next table entry
  step,           \* control_thread: the step counter
  stop,           \* control_thread: the stop flag
  cpc,            \* control_thread: "run", "quit", "done" or "raised"
  ctrl,           \* control_thread: index of the next queue to get Quit
  wpc,            \* worker i: "init", "get", "helix", "stopped" or "failed"
  command,        \* worker i: the command it took last
  counter,        \* worker i: the loop variable of the Helix sweep
  executed,       \* history: the commands worker i has taken, in order
  trace,          \* history: the calls, sleeps and warnings of worker i
  mark,           \* history: the length of trace[i] when worker i took command[i]
  enqueued        \* history: the puts of control_thread, in order

vars == <<sequence, controlQueues, pointer, step, stop, cpc, ctrl,
          wpc, command, counter, executed, trace, mark, enqueued>>

ctlVars == <<pointer, step, stop, cpc, ctrl, enqueued>>
workerVars == <<wpc, command, counter, executed, trace, mark>>

Agents == 0 .. NumAgents - 1

----------------------------------------------------------------------------
(* Commands: the namedtuples of the source.  Real-valued fields hold       *)
(* integers, except Ring.intensity, a fraction <<numerator, denominator>>, *)
(* and the heights z and zf of a Helix, decimal literals <<numerator,      *)
(* denominator>> as the table of the source writes them (0.3 is <<3, 10>>).*)

Takeoff(height, time) == [type |-> "Takeoff", height |-> height, time |-> time]
Land(time) == [type |-> "Land", time |-> time]
Goto(x, y, z, time) == [type |-> "Goto", x |-> x, y |-> y, z |-> z, time |-> time]
Ring(r, g, b, intensity, time) ==
  [type |-> "Ring", r |-> r, g |-> g, b |-> b, intensity |-> intensity, time |-> time]
Helix(d, z, zf, theta0, circle_period, No_setpoints, time) ==
  [type |-> "Helix", d |-> d, z |-> z, zf |-> zf, theta0 |-> theta0,
   circle_period |-> circle_period, No_setpoints |-> No_setpoints, time |-> time]
Quit == [type |-> "Quit"]
\* Any object that is none of the namedtuples above.
Other == [type |-> "Other"]

CommandTypes == {"Takeoff", "Land", "Goto", "Ring", "Helix", "Quit"}

----------------------------------------------------------------------------
(* Python list indexing: an index i of a list of length n is valid when    *)
(* -n <= i < n, and a negative index counts from the end.                  *)

ValidIndex(n, i) == -n <= i /\ i < n
Index(n, i) == IF i >= 0 THEN i ELSE n + i

----------------------------------------------------------------------------
(* Python floats: IEEE 754 binary64, round to nearest, ties to even.  A    *)
(* natural number of more than 31 bits is a sequence of limbs, least       *)
(* significant first, without leading zero limbs: << >> is 0.  A float is  *)
(* [neg, man, exp] of value (-1)^neg * man * 2^exp with man of exactly     *)
(* MantissaBits bits, or man = << >> for 0.  The values of the model are   *)
(* far from the overflow and subnormal ranges, which are not modelled.     *)

MantissaBits == 53
LimbBits == 15
Base == 2 ^ LimbBits

RECURSIVE BigNorm(_)
BigNorm(a) ==
  IF a = << >> THEN << >>
  ELSE IF a[Len(a)] = 0 THEN BigNorm(SubSeq(a, 1, Len(a) - 1))
  ELSE a

RECURSIVE BigFromInt(_)
BigFromInt(n) == IF n = 0 THEN << >> ELSE << n % Base >> \o BigFromInt(n \div Base)

RECURSIVE BigAddC(_, _, _)
BigAddC(a, b, carry) ==
  IF a = << >> /\ b = << >> THEN (IF carry = 0 THEN << >> ELSE << carry >>)
  ELSE LET x == IF a = << >> THEN 0 ELSE Head(a)
           y == IF b = << >> THEN 0 ELSE Head(b)
           s == x + y + carry
       IN  << s % Base >>
             \o BigAddC(IF a = << >> THEN a ELSE Tail(a),
                        IF b = << >> THEN b ELSE Tail(b), s \div Base)
BigAdd(a, b) == BigAddC(a, b, 0)

RECURSIVE BigSubB(_, _, _)
\* a - b - borrow for a >= b + borrow.
BigSubB(a, b, borrow) ==
  IF a = << >> THEN << >>
  ELSE LET y == IF b = << >> THEN 0 ELSE Head(b)
           d == Head(a) - y - borrow
       IN  << d % Base >>
             \o BigSubB(Tail(a), IF b = << >> THEN b ELSE Tail(b),
                        IF d < 0 THEN 1 ELSE 0)
BigSub(a, b) == BigNorm(BigSubB(a, b, 0))

RECURSIVE BigCmp(_, _)
\* -1, 0 or 1 as a < b, a = b or a > b.
BigCmp(a, b) ==
  IF Len(a) # Len(b) THEN (IF Len(a) < Len(b) THEN -1 ELSE 1)
  ELSE IF a = << >> THEN 0
  ELSE IF a[Len(a)] # b[Len(b)] THEN (IF a[Len(a)] < b[Len(b)] THEN -1 ELSE 1)
  ELSE BigCmp(BigNorm(SubSeq(a, 1, Len(a) - 1)), BigNorm(SubSeq(b, 1, Len(b) - 1)))

RECURSIVE BigMulSmallC(_, _, _)
BigMulSmallC(a, k, carry) ==
  IF a = << >> THEN (IF carry = 0 THEN << >> ELSE << carry >>)
  ELSE LET p == Head(a) * k + carry
       IN  << p % Base >> \o BigMulSmallC(Tail(a), k, p \div Base)
\* a * k for 0 <= k < Base.
BigMulSmall(a, k) == BigNorm(BigMulSmallC(a, k, 0))

RECURSIVE BigMul(_, _)
BigMul(a, b) ==
  IF b = << >> \/ a = << >> THEN << >>
  ELSE LET rest == BigMul(a, Tail(b))
       IN  BigAdd(BigMulSmall(a, Head(b)), IF rest = << >> THEN << >> ELSE << 0 >> \o rest)

RECURSIVE BigDivSmallR(_, _, _)
\* Long division by 0 < n < Base from the most significant limb:
\* <<quotient limbs, remainder>>.
BigDivSmallR(a, n, rem) ==
  IF a = << >> THEN << << >>, rem >>
  ELSE LET cur == rem * Base + a[Len(a)]
           low == BigDivSmallR(SubSeq(a, 1, Len(a) - 1), n, cur % n)
       IN  << low[1] \o << cur \div n >>, low[2] >>
BigDivSmall(a, n) == BigNorm(BigDivSmallR(a, n, 0)[1])
BigModSmall(a, n) == BigDivSmallR(a, n, 0)[2]

RECURSIVE BitLenInt(_)
BitLenInt(n) == IF n = 0 THEN 0 ELSE 1 + BitLenInt(n \div 2)
BitLen(a) == IF a = << >> THEN 0 ELSE LimbBits * (Len(a) - 1) + BitLenInt(a[Len(a)])

\* a * 2^s and floor(a / 2^s).
BigShl(a, s) ==
  IF a = << >> THEN << >>
  ELSE [i \in 1 .. s \div LimbBits |-> 0] \o BigMulSmall(a, 2 ^ (s % LimbBits))
BigShr(a, s) ==
  IF s \div LimbBits >= Len(a) THEN << >>
  ELSE BigDivSmall(SubSeq(a, s \div LimbBits + 1, Len(a)), 2 ^ (s % LimbBits))
BigOdd(a) == a # << >> /\ a[1] % 2 = 1

FZero == [neg |-> FALSE, man |-> << >>, exp |-> 0]

\* The float nearest to (-1)^neg * m * 2^e, ties to even.
FRound(neg, m, e) ==
  IF m = << >> THEN FZero
  ELSE IF BitLen(m) <= MantissaBits
  THEN [neg |-> neg, man |-> BigShl(m, MantissaBits - BitLen(m)),
        exp |-> e - (MantissaBits - BitLen(m))]
  ELSE LET s == BitLen(m) - MantissaBits
           q == BigShr(m, s)
           r == BigSub(m, BigShl(q, s))
           half == BigShl(<< 1 >>, s - 1)
           up == BigCmp(r, half) = 1 \/ (BigCmp(r, half) = 0 /\ BigOdd(q))
           q1 == IF up THEN BigAdd(q, << 1 >>) ELSE q
       IN  IF BitLen(q1) > MantissaBits
           THEN [neg |-> neg, man |-> BigShr(q1, 1), exp |-> e + s + 1]
           ELSE [neg |-> neg, man |-> q1, exp |-> e + s]

\* float(n) of an integer n of at most 31 bits.
FFromInt(n) == FRound(n < 0, BigFromInt(IF n < 0 THEN -n ELSE n), 0)

\* n / d of two integers, d > 0: Python's true division, correctly rounded;
\* also the float of the decimal literal n/d.  The quotient is taken with
\* more than MantissaBits + 2 bits and a sticky bit for the remainder.
FDivInt(n, d) ==
  LET a == BigShl(BigFromInt(IF n < 0 THEN -n ELSE n), 2 * MantissaBits)
      q == BigDivSmall(a, d)
      sticky == IF BigModSmall(a, d) = 0 THEN << >> ELSE << 1 >>
  IN  FRound(n < 0, BigAdd(BigShl(q, 1), sticky), -(2 * MantissaBits) - 1)

FNeg(x) == IF x.man = << >> THEN x ELSE [x EXCEPT !.neg = ~x.neg]

\* x + y.
FAdd(x, y) ==
  IF x.man = << >> THEN y
  ELSE IF y.man = << >> THEN x
  ELSE LET e == IF x.exp < y.exp THEN x.exp ELSE y.exp
           a == BigShl(x.man, x.exp - e)
           b == BigShl(y.man, y.exp - e)
       IN  IF x.neg = y.neg THEN FRound(x.neg, BigAdd(a, b), e)
           ELSE IF BigCmp(a, b) >= 0 THEN FRound(x.neg, BigSub(a, b), e)
           ELSE FRound(y.neg, BigSub(b, a), e)

FSub(x, y) == FAdd(x, FNeg(y))

\* x * y.
FMul(x, y) == FRound(x.neg # y.neg, BigMul(x.man, y.man), x.exp + y.exp)

\* The heights that the tables of the model write: one decimal as in the
\* table of the source, and two whole numbers.
Heights == { <<2, 10>>, <<3, 10>>, <<5, 10>>, <<9, 10>>, <<13, 10>>, <<15, 10>> }
AllHeights == Heights \cup { <<1, 1>>, <<3, 1>> }

\* The float of a height written as the decimal literal num/den, worked
\* out once for every height of the model.
Floats == [lit \in AllHeights |-> FDivInt(lit[1], lit[2])] @@ << >>
Float(lit) == Floats[lit]

\* x <= y.
FLeq(x, y) ==
  LET d == FSub(y, x) IN d.man = << >> \/ ~d.neg

----------------------------------------------------------------------------
(* The calls a worker makes, as records.  A number that the source         *)
(* computes by true division is a fraction <<numerator, denominator>>.     *)

SetValue(name, value) == [op |-> "set_value", name |-> name, value |-> value]
Call(op, args) == [op |-> op, args |-> args]
Sleep(num, den) == [op |-> "sleep", args |-> <<num, den>>]
Warning(c) == [op |-> "print", command |-> c]

\* int(x) of a non-negative or negative fraction num/den, den > 0: truncation.
Trunc(num, den) == IF num >= 0 THEN num \div den ELSE -((-num) \div den)

Shl(x, k) == x * (2 ^ k)

RECURSIVE BitOr(_, _)
BitOr(a, b) ==
  IF a = 0 THEN b
  ELSE IF b = 0 THEN a
  ELSE (IF a % 2 = 1 \/ b % 2 = 1 THEN 1 ELSE 0) + 2 * BitOr(a \div 2, b \div 2)

\* Mutant of RingColor: green shifted like red.
RingColorShift(r, g, b, intensity) ==
  LET rs == Trunc(r * intensity[1], intensity[2])
      gs == Trunc(g * intensity[1], intensity[2])
      bs == Trunc(b * intensity[1], intensity[2])
  IN  BitOr(BitOr(Shl(rs, 16), Shl(gs, 16)), bs)

\* Lines 184-188: the packed colour of set_ring_color.
RingColor(r, g, b, intensity) ==
  LET rs == Trunc(r * intensity[1], intensity[2])
      gs == Trunc(g * intensity[1], intensity[2])
      bs == Trunc(b * intensity[1], intensity[2])
  IN  BitOr(BitOr(Shl(rs, 16), Shl(gs, 8)), bs)

set_ring_color(r, g, b, intensity, time) ==
  << SetValue("ring.fadeTime", ToString(time)),
     SetValue("ring.fadeColor", ToString(RingColor(r, g, b, intensity))) >>

activate_mellinger_controller(use_mellinger) ==
  << SetValue("stabilizer.controller", ToString(IF use_mellinger THEN 2 ELSE 1)) >>

(* A way-point of the Helix, on the circle of diameter d at the angle      *)
(* theta0 + 2*pi*turn, turn = k/n: x = d/2*cos(angle), y = d/2*sin(angle), *)
(* yaw = angle - pi/2.  The call is recorded by what determines it:        *)
(* <<d, theta0, k, n, z, duration numerator, duration denominator>>, with  *)
(* the height z the float that the source computes.                        *)
HelixGoTo(c, k, n, z, durNum, durDen) ==
  Call("go_to", <<c.d, c.theta0, k, n, z, durNum, durDen>>)

\* Line 228: z + counter/No_setpoints * (zf - z) on floats.
Lerp(z, zf, k, n) == FAdd(z, FMul(FDivInt(k, n), FSub(zf, z)))

\* Line 228 for every Helix of the model, worked out once.
Setpoints ==
  [z \in AllHeights, zf \in AllHeights, n \in 1 .. MaxSetpoints, k \in 1 .. MaxSetpoints |->
     Lerp(Float(z), Float(zf), k, n)] @@ << >>

\* Line 228: command.z + counter/command.No_setpoints * (command.zf-command.z).
z_setpoint(c, k) == Setpoints[c.z, c.zf, c.No_setpoints, k]

\* Lines 219-224: the entry way-point and the wait for arrival.
HelixEntry(c) ==
  << HelixGoTo(c, 0, 1, Float(c.z), c.time, 1), Sleep(c.time + 1, 1) >>

\* Lines 226-231: one iteration of the sweep.
HelixSetpoint(c, k) ==
  << HelixGoTo(c, k, c.No_setpoints, z_setpoint(c, k),
               c.circle_period, c.No_setpoints),
     Sleep(c.circle_period, c.No_setpoints) >>

\* Mutant of Returns: Land ends the worker too.
ReturnsOnLand(c) == c.type \in {"Quit", "Land"}

\* Lines 209-210: the command that makes the worker return.
Returns(c) == c.type = "Quit"

\* Mutant of Execute: an unknown command is warned about and then landed.
ExecuteElseLand(c) ==
  IF c.type = "Takeoff" THEN << Call("takeoff", <<c.height, c.time>>) >>
  ELSE IF c.type = "Land" THEN << Call("land", <<0, c.time>>) >>
  ELSE IF c.type = "Goto" THEN << Call("go_to", <<c.x, c.y, c.z, 0, c.time>>) >>
  ELSE IF c.type = "Ring" THEN set_ring_color(c.r, c.g, c.b, c.intensity, c.time)
  ELSE << Warning(c), Call("land", <<0, 0>>) >>

\* Mutant of Execute: the worker waits for a landing to end.
ExecuteLandWaits(c) ==
  IF c.type = "Takeoff" THEN << Call("takeoff", <<c.height, c.time>>) >>
  ELSE IF c.type = "Land" THEN << Call("land", <<0, c.time>>), Sleep(c.time, 1) >>
  ELSE IF c.type = "Goto" THEN << Call("go_to", <<c.x, c.y, c.z, 0, c.time>>) >>
  ELSE IF c.type = "Ring" THEN set_ring_color(c.r, c.g, c.b, c.intensity, c.time)
  ELSE << Warning(c) >>

\* Lines 211-216 and 232-238: the commands that take one pass of the loop.
Execute(c) ==
  IF c.type = "Takeoff" THEN << Call("takeoff", <<c.height, c.time>>) >>
  ELSE IF c.type = "Land" THEN << Call("land", <<0, c.time>>) >>
  ELSE IF c.type = "Goto" THEN << Call("go_to", <<c.x, c.y, c.z, 0, c.time>>) >>
  ELSE IF c.type = "Ring" THEN set_ring_color(c.r, c.g, c.b, c.intensity, c.time)
  ELSE << Warning(c) >>

----------------------------------------------------------------------------
(* control_thread                                                          *)

\* Mutants of Due: a strict comparison, and no comparison at all.
DueStrict(entry, s) == entry[1] < s
DueEarly(entry, s) == TRUE

\* Line 248: the entry at the cursor is due.
Due(entry, s) == entry[1] <= s

\* Mutant of Put: a LIFO in place of the FIFO.
PutFront(q, c) == <<c>> \o q

\* Line 253: Queue.put.
Put(q, c) == Append(q, c)

\* Mutant of Full: queues of one place, Queue(1).
FullAtOne(q) == Len(q) >= 1

\* Line 269: Queue() has no maximal size, so it is never full and put
\* never blocks.
Full(q) == FALSE

\* Mutant of NextPointer: every other entry is passed over.
NextPointerSkip(p) == p + 2

\* Line 254.
NextPointer(p) == p + 1

\* Mutant of NextStep: a tick that skips a step.
NextStepSkip(s) == s + 2

\* Line 261.
NextStep(s) == s + 1

\* Mutant of AtEnd: the end is seen one entry too soon.
AtEndSoon(p) == p >= Len(sequence) - 1

\* Line 256.
AtEnd(p) == p >= Len(sequence)

\* Lines 248 and 253: sequence[pointer] or controlQueues[cf_id] raises IndexError.
Raises ==
  IF ~ValidIndex(Len(sequence), pointer) THEN TRUE
  ELSE /\ Due(sequence[pointer + 1], step)
       /\ ~ValidIndex(NumAgents, sequence[pointer + 1][2])

\* Lines 248-259: one pass of the inner loop.
Dispatch ==
  /\ cpc = "run" /\ ~stop
  /\ ValidIndex(Len(sequence), pointer)
  /\ Due(sequence[pointer + 1], step)
  /\ LET cf_id == sequence[pointer + 1][2]
         c == sequence[pointer + 1][3]
         q == Index(NumAgents, cf_id)
     IN  /\ ValidIndex(NumAgents, cf_id)
         /\ ~Full(controlQueues[q])
         /\ controlQueues' = [controlQueues EXCEPT ![q] = Put(@, c)]
         /\ enqueued' = Append(enqueued, [idx |-> pointer, q |-> q, tick |-> step])
  /\ pointer' = NextPointer(pointer)
  /\ stop' = AtEnd(pointer')
  /\ UNCHANGED <<sequence, step, cpc, ctrl>>
  /\ UNCHANGED workerVars

\* Lines 248, 261-262 and 246: the inner loop is left, the step counter
\* advances, the thread sleeps STEP_TIME and tests the stop flag.
Tick ==
  /\ cpc = "run"
  /\ IF stop THEN TRUE
     ELSE /\ ValidIndex(Len(sequence), pointer)
          /\ ~Due(sequence[pointer + 1], step)
  /\ step' = NextStep(step)
  /\ cpc' = IF stop THEN "quit" ELSE "run"
  /\ UNCHANGED <<sequence, controlQueues, pointer, stop, ctrl, enqueued>>
  /\ UNCHANGED workerVars

\* An IndexError ends control_thread: nothing catches it.
Raise ==
  /\ cpc = "run" /\ ~stop
  /\ Raises
  /\ cpc' = "raised"
  /\ UNCHANGED <<sequence, controlQueues, pointer, step, stop, ctrl, enqueued>>
  /\ UNCHANGED workerVars

\* Lines 264-265: one pass of the for loop.
PutQuit ==
  /\ cpc = "quit"
  /\ ~Full(controlQueues[ctrl])
  /\ controlQueues' = [controlQueues EXCEPT ![ctrl] = Put(@, Quit)]
  /\ enqueued' = Append(enqueued, [idx |-> -1, q |-> ctrl, tick |-> step])
  /\ ctrl' = ctrl + 1
  /\ cpc' = IF ctrl' >= NumAgents THEN "done" ELSE "quit"
  /\ UNCHANGED <<sequence, pointer, step, stop>>
  /\ UNCHANGED workerVars

control_thread == Dispatch \/ Tick \/ Raise \/ PutQuit

----------------------------------------------------------------------------
(* crazyflie_control, the worker of Crazyflie a, the one that the swarm    *)
(* made for uris[a].                                                       *)

\* Mutant of uris: the last URI is written like the first.
urisRepeated == [i \in Agents |-> IF i = NumAgents - 1 THEN 0 ELSE i]

\* Lines 58-83: the list of URI0, URI1, ..., each named by its number.
uris == [i \in Agents |-> i]

\* list.index: the first index at which the list holds u.
index(u) ==
  CHOOSE i \in Agents : uris[i] = u /\ \A j \in Agents : uris[j] = u => i <= j

\* Line 195: the index of the queue that worker a reads.
control(a) == index(uris[a])

\* Lines 194-203.
WorkerStart(a) ==
  /\ wpc[a] = "init"
  /\ trace' = [trace EXCEPT ![a] =
                 @ \o activate_mellinger_controller(FALSE)
                   \o set_ring_color(0, 0, 0, <<0, 1>>, 0)
                   \o << SetValue("ring.effect", "14") >>]
  /\ wpc' = [wpc EXCEPT ![a] = "get"]
  /\ UNCHANGED <<sequence, controlQueues, command, counter, executed, mark>>
  /\ UNCHANGED ctlVars

\* Lines 208-238: control.get() and the branch of the command, up to the
\* next get, or for a Helix up to the first pass of its sweep.
Get(a) ==
  /\ wpc[a] = "get"
  /\ controlQueues[control(a)] # << >>
  /\ LET c == Head(controlQueues[control(a)]) IN
       /\ controlQueues' = [controlQueues EXCEPT ![control(a)] = Tail(@)]
       /\ executed' = [executed EXCEPT ![a] = Append(@, c)]
       /\ command' = [command EXCEPT ![a] = c]
       /\ mark' = [mark EXCEPT ![a] = Len(trace[a])]
       /\ IF Returns(c)
          THEN /\ wpc' = [wpc EXCEPT ![a] = "stopped"]
               /\ UNCHANGED <<trace, counter>>
          ELSE IF c.type = "Helix"
          THEN IF c.No_setpoints = 0
               THEN \* line 218: ZeroDivisionError ends the worker
                    /\ wpc' = [wpc EXCEPT ![a] = "failed"]
                    /\ UNCHANGED <<trace, counter>>
               ELSE /\ trace' = [trace EXCEPT ![a] = @ \o HelixEntry(c)]
                    /\ counter' = [counter EXCEPT ![a] = 1]
                    /\ wpc' = [wpc EXCEPT ![a] = "helix"]
          ELSE /\ trace' = [trace EXCEPT ![a] = @ \o Execute(c)]
               /\ UNCHANGED <<wpc, counter>>
  /\ UNCHANGED sequence
  /\ UNCHANGED ctlVars

\* Mutant of HelixStep: the sweep is given up for the next command of the
\* queue.
HelixStepGivenUp(a) ==
  /\ wpc[a] = "helix"
  /\ controlQueues[control(a)] # << >>
  /\ controlQueues' = [controlQueues EXCEPT ![control(a)] = Tail(@)]
  /\ executed' = [executed EXCEPT ![a] = Append(@, Head(controlQueues[control(a)]))]
  /\ wpc' = [wpc EXCEPT ![a] = "get"]
  /\ UNCHANGED <<sequence, command, counter, trace, mark>>
  /\ UNCHANGED ctlVars

\* Lines 225-231: one pass of the sweep; after the last one, back to get.
HelixStep(a) ==
  /\ wpc[a] = "helix"
  /\ trace' = [trace EXCEPT ![a] = @ \o HelixSetpoint(command[a], counter[a])]
  /\ IF counter[a] >= command[a].No_setpoints
     THEN /\ wpc' = [wpc EXCEPT ![a] = "get"]
          /\ UNCHANGED counter
     ELSE /\ counter' = [counter EXCEPT ![a] = @ + 1]
          /\ UNCHANGED wpc
  /\ UNCHANGED <<sequence, controlQueues, command, executed, mark>>
  /\ UNCHANGED ctlVars

crazyflie_control(a) == WorkerStart(a) \/ Get(a) \/ HelixStep(a)

----------------------------------------------------------------------------
(* Tables and specifications                                               *)

Entries(steps, ids, cmds) == steps \X ids \X cmds
Tables(E) == UNION { [1 .. n -> E] : n \in 0 .. MaxLen }

\* Lines 242-244 and 269, with the table given.
Start(tables) ==
  /\ sequence \in tables
  /\ controlQueues = [a \in Agents |-> << >>]
  /\ pointer = 0 /\ step = 0 /\ stop = FALSE
  /\ cpc = "run" /\ ctrl = 0
  /\ wpc = [a \in Agents |-> "init"]
  /\ command = [a \in Agents |-> Other]
  /\ counter = [a \in Agents |-> 0]
  /\ executed = [a \in Agents |-> << >>]
  /\ trace = [a \in Agents |-> << >>]
  /\ mark = [a \in Agents |-> 0]
  /\ enqueued = << >>

\* The command of the i-th entry of a show.  control_thread hands the
\* command on without looking at it, so the tables of a show differ in
\* their steps and cf_ids only; their commands name the entry, which makes
\* them pairwise different, and the second one is a Helix.
ShowCommand(i) ==
  IF i % 3 = 1 THEN Takeoff(i, 2)
  ELSE IF i % 3 = 2 THEN Helix(3, <<1, 1>>, <<3, 1>>, 0, 10, 1, i)
  ELSE Land(i)

ShowTables(steps, ids) ==
  UNION { { [i \in 1 .. n |-> <<f[i][1], f[i][2], ShowCommand(i)>>] :
              f \in [1 .. n -> steps \X ids] } : n \in 0 .. MaxLen }

\* A table of two Crazyflies that take off at step 0 and land at step 2.
ExampleTable ==
  << <<0, 0, Takeoff(1, 2)>>, <<0, 1, Takeoff(1, 2)>>,
     <<2, 0, Land(2)>>, <<2, 1, Land(2)>> >>

\* Tables of a show: every cf_id is the index of a Crazyflie.
Init == Start(ShowTables(0 .. MaxStep, Agents) \cup {ExampleTable})

Next == control_thread \/ \E a \in Agents : crazyflie_control(a)

Spec == Init /\ [][Next]_vars

\* Tables as written by hand: nothing checks cf_id before the show starts.
AnyIds == -(NumAgents + 1) .. NumAgents
InitAnyTable == Start(ShowTables(0 .. MaxStep, AnyIds))
SpecAnyTable == InitAnyTable /\ [][Next]_vars

\* The stream of one Crazyflie: every entry at step 0 for cf_id 0, with
\* every kind of command, Quit and a Helix of no set-point among them.
StreamCommands ==
  { Takeoff(1, 2), Land(2), Goto(1, 2, 3, 1), Ring(255, 255, 255, <<1, 2>>, 1),
    Other, Quit }
  \cup { Helix(3, <<1, 1>>, <<3, 1>>, 0, 10, n, 3) : n \in 0 .. MaxSetpoints }
InitStream == Start(Tables(Entries({0}, {0}, StreamCommands)))
SpecStream == InitStream /\ [][Next]_vars

\* One Ring command for cf_id 0 at step 0; the intensities are fractions
\* with a power of two as denominator, which the floating point product
\* r * intensity of the source represents exactly.
Channels == {0, 1, 100, 128, 255}
Intensities == { <<0, 1>>, <<1, 4>>, <<1, 2>>, <<3, 4>>, <<1, 1>> }
RingCommands ==
  { Ring(r, g, b, i, 1) : r \in Channels, g \in Channels, b \in Channels,
                          i \in Intensities }
InitRing == Start({ << e >> : e \in Entries({0}, {0}, RingCommands) })
NextRing ==
  \/ Dispatch \/ Tick \/ PutQuit
  \/ \E a \in Agents : WorkerStart(a) \/ Get(a)
SpecRing == InitRing /\ [][NextRing]_vars

\* One Helix for cf_id 0 at step 0, between heights written with one
\* decimal as in the table of the source, of 1 .. MaxSetpoints set-points.
HelixCommands ==
  { Helix(3, z, zf, 0, 10, n, 3) : z \in Heights, zf \in Heights,
                                   n \in 1 .. MaxSetpoints }
InitHelix == Start({ << e >> : e \in Entries({0}, {0}, HelixCommands) })
NextHelix ==
  \/ Dispatch \/ Tick \/ PutQuit
  \/ \E a \in Agents : crazyflie_control(a)
SpecHelix == InitHelix /\ [][NextHelix]_vars

\* Shows under fair scheduling: non-empty tables with valid cf_ids, a Helix
\* of no set-point among the commands; control_thread and every worker
\* take a step whenever one stays possible (sleeps and calls return).
FairCommands ==
  { Takeoff(1, 2), Land(2), Helix(3, <<1, 1>>, <<3, 1>>, 0, 10, 0, 3) }
NonEmptyTables(E) == UNION { [1 .. n -> E] : n \in 1 .. MaxLen }
InitFair == Start(NonEmptyTables(Entries(0 .. MaxStep, Agents, FairCommands)))
NextFair ==
  \/ Dispatch \/ Tick \/ PutQuit
  \/ \E a \in Agents : WorkerStart(a) \/ Get(a)
SpecFair ==
  /\ InitFair /\ [][NextFair]_vars
  /\ WF_vars(Dispatch \/ Tick \/ PutQuit)
  /\ \A a \in Agents : WF_vars(WorkerStart(a) \/ Get(a))

\* Shows with one faulty Crazyflie: its worker may stall for ever at any
\* point (no fairness) or die of a Helix of no set-point; control_thread
\* and the other workers are scheduled fairly.  Entries at the steps 0
\* and 1, Land for the other Crazyflies.
Faulty == 0
FaultySteps == {0, 1}
FaultyEntries ==
  Entries(FaultySteps, {Faulty}, {Land(2), Helix(3, <<1, 1>>, <<3, 1>>, 0, 10, 0, 3)})
    \cup Entries(FaultySteps, Agents \ {Faulty}, {Land(2)})
InitFaulty == Start(NonEmptyTables(FaultyEntries))
SpecFaulty ==
  /\ InitFaulty /\ [][NextFair]_vars
  /\ WF_vars(Dispatch \/ Tick \/ PutQuit)
  /\ \A a \in Agents \ {Faulty} : WF_vars(WorkerStart(a) \/ Get(a))

----------------------------------------------------------------------------
(* Properties of the scheduler and of the delivery to the workers          *)

RECURSIVE Project(_, _)
\* The commands of the entries of table t addressed to Crazyflie a, in order.
Project(t, a) ==
  IF t = << >> THEN << >>
  ELSE (IF Head(t)[2] = a THEN << Head(t)[3] >> ELSE << >>) \o Project(Tail(t), a)

IsPrefix(s, t) == Len(s) <= Len(t) /\ SubSeq(t, 1, Len(s)) = s
Last(s) == s[Len(s)]

\* What worker a is to take in all: its commands of the table, then Quit.
Expected(a) == Project(sequence, a) \o << Quit >>

\* What control_thread has put on the queue of a so far, by its position.
Delivered(a) ==
  Project(SubSeq(sequence, 1, pointer), a)
    \o (IF cpc \in {"quit", "done"} /\ ctrl > a THEN << Quit >> ELSE << >>)

Sorted(t) == \A i, j \in 1 .. Len(t) : i <= j => t[i][1] <= t[j][1]

\* The puts of table entries, and the puts of Quit, in the history.
TablePuts == { k \in 1 .. Len(enqueued) : enqueued[k].idx >= 0 }
QuitPuts(a) == { k \in 1 .. Len(enqueued) : enqueued[k].idx = -1 /\ enqueued[k].q = a }

\* C1: in every state, what worker a has taken followed by what waits in
\* its queue is exactly what control_thread has delivered for a, in table
\* order; so what a has taken is a prefix of its commands of the table
\* followed by Quit, and a worker that stopped has taken exactly its
\* commands of the table and then one Quit.
C1_PerAgentOrder ==
  \A a \in Agents :
    /\ executed[a] \o controlQueues[a] = Delivered(a)
    /\ IsPrefix(executed[a], Expected(a))
    /\ cpc = "done" => Delivered(a) = Expected(a)
    /\ wpc[a] = "stopped" => executed[a] = Expected(a)

\* C1 witness: a worker that took two different commands of the table, in
\* table order, then Quit, and stopped.
C1_Witness ==
  \E a \in Agents :
    /\ wpc[a] = "stopped"
    /\ Len(executed[a]) = 3
    /\ executed[a][1] # executed[a][2]
    /\ executed[a] = Expected(a)

\* C2: for a table sorted by step, the puts are in non-decreasing step
\* order, every entry of a smaller step is put before an entry of step N
\* is, and the step counter is never past the step of an entry that is
\* not yet put.
C2_MonotonicBatch ==
  Sorted(sequence) =>
    /\ \A k, l \in TablePuts :
          k <= l => sequence[enqueued[k].idx + 1][1] <= sequence[enqueued[l].idx + 1][1]
    /\ \A k \in TablePuts : \A i \in 1 .. Len(sequence) :
          sequence[i][1] < sequence[enqueued[k].idx + 1][1]
            => \E l \in TablePuts : l < k /\ enqueued[l].idx = i - 1
    /\ \A i \in 1 .. Len(sequence) : sequence[i][1] < step => i <= pointer

\* C2 witness: a sorted table with entries of two steps, all put, the
\* counter past both.
C2_Witness ==
  /\ Sorted(sequence) /\ Len(sequence) = 2
  /\ sequence[1][1] < sequence[2][1]
  /\ Cardinality(TablePuts) = 2
  /\ step > sequence[2][1]

\* C3 (as claimed): when control_thread is over with the cursor at the end
\* of the table, it has set the stop flag, has ended by leaving its loop,
\* and has put exactly one Quit on the queue of every Crazyflie.
C3_QuitAtEnd ==
  (cpc \in {"done", "raised"} /\ pointer = Len(sequence)) =>
    /\ stop /\ cpc = "done"
    /\ \A a \in Agents : Cardinality(QuitPuts(a)) = 1

\* The ticks of the puts, in the order of the puts.
PutTicks == [k \in 1 .. Len(enqueued) |-> enqueued[k].tick]

\* C5: for a table sorted by step, every entry is put during the tick of
\* its own step, and the Quits are put after the tick of the last entry's
\* step, once every entry has been put; for the table with entries at
\* steps 0, 0, 2, 2 for Crazyflies 0, 1, 0, 1 the puts are at ticks 0, 0,
\* 2, 2 and the Quits after tick 2, and each of the two workers takes
\* exactly Takeoff, Land, Quit.
C5_PutAtOwnTick ==
  /\ Sorted(sequence) =>
        \A k \in 1 .. Len(enqueued) :
          IF enqueued[k].idx >= 0
          THEN enqueued[k].tick = sequence[enqueued[k].idx + 1][1]
          ELSE /\ enqueued[k].tick = Last(sequence)[1] + 1
               /\ \A i \in 1 .. Len(sequence) :
                    \E l \in TablePuts : l < k /\ enqueued[l].idx = i - 1
  /\ sequence = ExampleTable =>
        /\ IsPrefix(PutTicks, <<0, 0, 2, 2>> \o [a \in 1 .. NumAgents |-> 3])
        /\ cpc = "done" => Len(PutTicks) = 4 + NumAgents
        /\ \A a \in {0, 1} :
              /\ IsPrefix(executed[a], <<Takeoff(1, 2), Land(2), Quit>>)
              /\ wpc[a] = "stopped" => executed[a] = <<Takeoff(1, 2), Land(2), Quit>>

\* C5 witness: the table with entries at steps 0, 0, 2, 2 has been played
\* to its end: control_thread is over and both workers have stopped.
C5_Witness ==
  /\ sequence = ExampleTable
  /\ cpc = "done"
  /\ wpc[0] = "stopped" /\ wpc[1] = "stopped"
  /\ SubSeq(PutTicks, 1, 4) = <<0, 0, 2, 2>>

\* The inner loop of control_thread is over for the current step.
DispatchOver ==
  IF stop THEN TRUE
  ELSE ValidIndex(Len(sequence), pointer) /\ ~(sequence[pointer + 1][1] <= step)

\* C8: the step counter starts at 0 and changes only by a step of
\* control_thread that adds exactly 1, taken when the dispatch pass of the
\* current step is over; no step of a worker changes it.
C8_StepCounter ==
  /\ step = 0
  /\ [][step' # step =>
          /\ step' = step + 1
          /\ cpc = "run" /\ DispatchOver
          /\ UNCHANGED workerVars
          /\ UNCHANGED controlQueues]_vars

\* C8 witness: the counter has been advanced more than once.
C8_Witness == step >= 2 /\ cpc = "done"

----------------------------------------------------------------------------
(* Tables with a cf_id that is no index of a Crazyflie                     *)

BadEntries == { i \in 1 .. Len(sequence) : sequence[i][2] \notin Agents }

\* C4 (as claimed): a table with an entry whose cf_id is not in
\* 0 .. NumAgents - 1 is rejected before the scheduler starts: nothing of
\* it is ever put on a queue, the bad entry least of all.
C4_RejectedAtLoad ==
  BadEntries # {} =>
    /\ enqueued = << >>
    /\ \A a \in Agents : controlQueues[a] = << >> /\ executed[a] = << >>

----------------------------------------------------------------------------
(* Properties of the worker                                                *)

\* The part of its trace that worker a made for the command it took last.
Segment(a) == SubSeq(trace[a], mark[a] + 1, Len(trace[a]))

RECURSIVE Known(_)
\* The commands of s whose type the worker knows.
Known(s) ==
  IF s = << >> THEN << >>
  ELSE (IF Head(s).type \in CommandTypes THEN << Head(s) >> ELSE << >>)
         \o Known(Tail(s))

RECURSIVE Calls(_)
\* The items of a trace that are not warnings.
Calls(s) ==
  IF s = << >> THEN << >>
  ELSE (IF Head(s).op # "print" THEN << Head(s) >> ELSE << >>) \o Calls(Tail(s))

RECURSIVE Sweep(_, _)
\* The set-points 1 .. k of the Helix c, in order.
Sweep(c, k) == IF k <= 0 THEN << >> ELSE Sweep(c, k - 1) \o HelixSetpoint(c, k)

\* The whole expansion of the Helix c: steps + 1 way-points.
FullHelix(c) == HelixEntry(c) \o Sweep(c, c.No_setpoints)

RECURSIVE Reference(_)
\* What the worker is to do for the known commands s, one after the other.
Reference(s) ==
  IF s = << >> THEN << >>
  ELSE (IF Head(s).type = "Quit" THEN << >>
        ELSE IF Head(s).type = "Helix" THEN FullHelix(Head(s))
        ELSE Execute(Head(s)))
         \o Reference(Tail(s))

WorkerStartCalls ==
  activate_mellinger_controller(FALSE) \o set_ring_color(0, 0, 0, <<0, 1>>, 0)
    \o << SetValue("ring.effect", "14") >>

\* C7: taking a command of unknown type adds one warning to the trace and
\* nothing else, leaves the worker at its get with the rest of the queue
\* untouched, and the calls of the worker are those of the known commands
\* it took, as if the unknown ones had not been there.
C7_UnknownSkipped ==
  /\ [](\A a \in Agents :
          wpc[a] # "init" =>
            /\ IsPrefix(Calls(trace[a]), WorkerStartCalls \o Reference(Known(executed[a])))
            /\ wpc[a] \in {"get", "stopped"} =>
                  Calls(trace[a]) = WorkerStartCalls \o Reference(Known(executed[a])))
  /\ [][\A a \in Agents :
          (/\ wpc[a] = "get" /\ controlQueues[a] # << >>
           /\ Head(controlQueues[a]).type \notin CommandTypes
           /\ executed'[a] # executed[a]) =>
            /\ trace'[a] = Append(trace[a], Warning(Head(controlQueues[a])))
            /\ wpc'[a] = "get"
            /\ controlQueues'[a] = Tail(controlQueues[a])]_vars

\* C7 witness: a worker took an unknown command and then a Takeoff, which
\* it executed; the warning and the call are the last two items.
C7_Witness ==
  \E a \in Agents :
    /\ wpc[a] = "get"
    /\ Len(executed[a]) = 2
    /\ executed[a][1] = Other /\ executed[a][2].type = "Takeoff"
    /\ SubSeq(trace[a], Len(trace[a]) - 1, Len(trace[a]))
         = << Warning(Other), Call("takeoff", <<1, 2>>) >>

\* C9 (as claimed): once a worker is through with a Helix, what it did for
\* it is the entry way-point with the full duration and then the
\* set-points 1 .. steps in order, each with duration period/steps:
\* steps + 1 go_to calls, also for steps = 0.
C9_HelixWaypoints ==
  \A a \in Agents :
    (command[a].type = "Helix" /\ wpc[a] # "helix") =>
      /\ Segment(a) = FullHelix(command[a])
      /\ Cardinality({ k \in 1 .. Len(Segment(a)) : Segment(a)[k].op = "go_to" })
           = command[a].No_setpoints + 1

----------------------------------------------------------------------------
(* The ring colour                                                         *)

\* The channels of the command c scaled by its intensity.
Scaled(x, c) == Trunc(x * c.intensity[1], c.intensity[2])

\* C10: for channels in 0 .. 255 and an intensity in [0, 1], the Ring
\* command c sets ring.fadeTime and then ring.fadeColor, to the number
\* whose bits 16-23, 8-15 and 0-7 are the truncated scaled channels, each
\* in 0 .. 255, so that it is below 2^24; (255, 0, 0, 1) gives 0xFF0000
\* and (255, 255, 255, 1/2) gives 0x7F7F7F.
C10_RingPacking ==
  \A a \in Agents :
    command[a].type = "Ring" =>
      LET c == command[a]
          color == RingColor(c.r, c.g, c.b, c.intensity)
      IN  /\ Segment(a) = << SetValue("ring.fadeTime", ToString(c.time)),
                             SetValue("ring.fadeColor", ToString(color)) >>
          /\ color = Scaled(c.r, c) * 65536 + Scaled(c.g, c) * 256 + Scaled(c.b, c)
          /\ \A x \in {c.r, c.g, c.b} : Scaled(x, c) \in 0 .. 255
          /\ color \in 0 .. 16777215
          /\ color \div 65536 = Scaled(c.r, c)
          /\ (color \div 256) % 256 = Scaled(c.g, c)
          /\ color % 256 = Scaled(c.b, c)
          /\ (c.r = 255 /\ c.g = 0 /\ c.b = 0 /\ c.intensity = <<1, 1>>)
                => Last(trace[a]).value = "16711680"
          /\ (c.r = 255 /\ c.g = 255 /\ c.b = 255 /\ c.intensity = <<1, 2>>)
                => Last(trace[a]).value = "8355711"

\* C10 witness: the worker has executed Ring(255, 255, 255, 0.5) and sent
\* 0x7F7F7F.
C10_Witness ==
  \E a \in Agents :
    /\ command[a].type = "Ring"
    /\ command[a].r = 255 /\ command[a].g = 255 /\ command[a].b = 255
    /\ command[a].intensity = <<1, 2>>
    /\ Last(trace[a]) = SetValue("ring.fadeColor", "8355711")

----------------------------------------------------------------------------
(* The heights of the Helix                                                *)

IsGoTo(item) == item.op = "go_to"

\* The heights of the way-points that worker a has sent for its current
\* command, in order.
WaypointHeights(a) ==
  LET g == SelectSeq(Segment(a), IsGoTo) IN [k \in 1 .. Len(g) |-> g[k].args[5]]

\* x lies between y and the end height zf, on the side of y.
Towards(x, y, zf) ==
  (FLeq(y, x) /\ FLeq(x, zf)) \/ (FLeq(zf, x) /\ FLeq(x, y))

\* C11 (as claimed): once a worker is through with a Helix of steps >= 1,
\* way-point number counter was sent with the height
\* zStart + counter/steps * (zEnd - zStart), every height lies between its
\* predecessor and zEnd, and the last way-point has the height zEnd
\* exactly and the angle theta0 + one full turn (counter = steps).
C11_HelixHeights ==
  \A a \in Agents :
    (command[a].type = "Helix" /\ wpc[a] = "get") =>
      LET c == command[a]
          h == WaypointHeights(a)
          g == SelectSeq(Segment(a), IsGoTo)
      IN  /\ Len(h) = c.No_setpoints + 1
          /\ h[1] = Float(c.z)
          /\ \A k \in 1 .. c.No_setpoints :
                /\ h[k + 1] = Lerp(Float(c.z), Float(c.zf), k, c.No_setpoints)
                /\ Towards(h[k + 1], h[k], Float(c.zf))
          /\ Last(h) = Float(c.zf)
          /\ Last(g).args[3] = Last(g).args[4]

----------------------------------------------------------------------------
(* Shutdown                                                                *)

\* C12 (as claimed): for every non-empty table with valid cf_ids, under
\* fair scheduling, control_thread eventually terminates and every worker
\* eventually has taken every command addressed to it and then Quit, and
\* is stopped.
C12_Shutdown ==
  <>(/\ cpc = "done"
     /\ \A a \in Agents : wpc[a] = "stopped" /\ executed[a] = Expected(a))

\* C13: whatever the worker of one Crazyflie does, stall at any point or
\* die, control_thread puts every entry of the table and then Quit for
\* every Crazyflie and terminates, and the worker of every other Crazyflie
\* takes its whole stream and stops.
C13_FaultIsolation ==
  /\ <>(/\ cpc = "done" /\ pointer = Len(sequence)
        /\ \A a \in Agents : Delivered(a) = Expected(a)
        /\ Len(enqueued) = Len(sequence) + NumAgents)
  /\ \A a \in Agents \ {Faulty} :
        <>(wpc[a] = "stopped" /\ executed[a] = Expected(a))

\* C13 witness: the worker of the faulty Crazyflie is dead, with Quit left
\* on its queue, control_thread has terminated and another worker has
\* taken its command and Quit and is stopped.
C13_Witness ==
  /\ wpc[Faulty] = "failed" /\ controlQueues[Faulty] # << >>
  /\ cpc = "done"
  /\ \E a \in Agents \ {Faulty} :
        wpc[a] = "stopped" /\ Len(executed[a]) >= 2 /\ executed[a] = Expected(a)

----------------------------------------------------------------------------
(* The Helix within the stream of a worker                                 *)

\* C14: from taking a Helix to the end of its sweep a worker takes no other
\* command: what it has sent since the get is the entry way-point and the
\* set-points before counter, nothing in between, and after the sweep all
\* steps + 1 way-points; meanwhile its queue only grows at the back, so
\* that what it has taken and what is queued stay what control_thread
\* delivered, in order; and a step of another worker changes nothing of
\* the worker in the Helix.
C14_HelixSerial ==
  /\ [](\A a \in Agents :
          /\ wpc[a] = "helix" =>
                /\ command[a].type = "Helix"
                /\ executed[a] # << >> /\ Last(executed[a]) = command[a]
                /\ counter[a] \in 1 .. command[a].No_setpoints
                /\ Segment(a) = HelixEntry(command[a]) \o Sweep(command[a], counter[a] - 1)
          /\ (command[a].type = "Helix" /\ wpc[a] = "get") =>
                Segment(a) = FullHelix(command[a])
          /\ executed[a] \o controlQueues[a] = Delivered(a))
  /\ [][\A a \in Agents :
          wpc[a] = "helix" =>
            /\ executed'[a] = executed[a] /\ command'[a] = command[a]
            /\ mark'[a] = mark[a]
            /\ IsPrefix(controlQueues[a], controlQueues'[a])
            /\ \/ wpc'[a] = "helix"
               \/ wpc'[a] = "get" /\ counter[a] = command[a].No_setpoints
            /\ \A b \in Agents \ {a} :
                  (wpc'[b] # wpc[b] \/ executed'[b] # executed[b]) =>
                    /\ trace'[a] = trace[a] /\ counter'[a] = counter[a]
                    /\ wpc'[a] = wpc[a] /\ controlQueues'[a] = controlQueues[a]
     ]_vars

\* C14 witness: a worker is in the sweep of a Helix of two set-points, past
\* the first one, with a command that came meanwhile on its queue, and
\* another worker has taken Quit and stopped.
C14_Witness ==
  \E a \in Agents :
    /\ wpc[a] = "helix" /\ counter[a] = 2
    /\ controlQueues[a] # << >>
    /\ \E b \in Agents \ {a} : wpc[b] = "stopped"

----------------------------------------------------------------------------
(* The queues                                                              *)

\* C15: there is one queue for each Crazyflie, and the queue that a worker
\* reads is the one at its own index, so no two workers read the same
\* one; a queue gets longer only by a put of control_thread at its back,
\* which no worker takes part in, and shorter only by worker i taking the
\* head of queue i, which neither control_thread nor another worker takes
\* part in; and a worker that takes a command takes it from its own queue
\* and leaves the other queues alone.
C15_QueueOwnership ==
  /\ [](/\ DOMAIN controlQueues = Agents
        /\ \A a \in Agents : control(a) = a
        /\ \A a, b \in Agents : a # b => control(a) # control(b))
  /\ [][\A i \in Agents :
          /\ controlQueues'[i] # controlQueues[i] =>
                \/ /\ Len(enqueued') = Len(enqueued) + 1
                   /\ Last(enqueued').q = i
                   /\ controlQueues'[i] # << >>
                   /\ controlQueues'[i] = Append(controlQueues[i], Last(controlQueues'[i]))
                   /\ UNCHANGED workerVars
                \/ /\ controlQueues[i] # << >>
                   /\ controlQueues'[i] = Tail(controlQueues[i])
                   /\ executed'[i] = Append(executed[i], Head(controlQueues[i]))
                   /\ \A j \in Agents \ {i} : executed'[j] = executed[j] /\ wpc'[j] = wpc[j]
                   /\ UNCHANGED ctlVars
          /\ executed'[i] # executed[i] =>
                /\ controlQueues[i] # << >>
                /\ controlQueues'[i] = Tail(controlQueues[i])
                /\ \A j \in Agents \ {i} : controlQueues'[j] = controlQueues[j]
     ]_vars

\* C15 witness: both workers have taken a command from their queues, and
\* control_thread has put more on one of them.
C15_Witness ==
  /\ \A a \in Agents : executed[a] # << >> /\ executed[a] = SubSeq(Expected(a), 1, Len(executed[a]))
  /\ \E a \in Agents : controlQueues[a] # << >>
  /\ \E a \in Agents : Project(sequence, a) # << >>

----------------------------------------------------------------------------
(* The calls of the simple commands                                        *)

Motion == {"takeoff", "land", "go_to"}

\* C16: what a worker does for the command it took is, for a Takeoff, the
\* one call takeoff(height, time); for a Land, the one call land(0, time);
\* for a Goto, the one call go_to(x, y, z, 0, time); for a Ring, no motion
\* call but two parameters set, ring.fadeTime and then ring.fadeColor; for
\* none of the four a sleep, and the worker is back at its get at once.
C16_CommandCalls ==
  \A a \in Agents :
    LET c == command[a]
        seg == Segment(a)
    IN  /\ c.type = "Takeoff" =>
              seg = << [op |-> "takeoff", args |-> <<c.height, c.time>>] >>
        /\ c.type = "Land" =>
              seg = << [op |-> "land", args |-> <<0, c.time>>] >>
        /\ c.type = "Goto" =>
              seg = << [op |-> "go_to", args |-> <<c.x, c.y, c.z, 0, c.time>>] >>
        /\ c.type = "Ring" =>
              /\ Len(seg) = 2
              /\ seg[1].op = "set_value" /\ seg[1].name = "ring.fadeTime"
              /\ seg[1].value = ToString(c.time)
              /\ seg[2].op = "set_value" /\ seg[2].name = "ring.fadeColor"
              /\ seg[2].value = ToString(RingColor(c.r, c.g, c.b, c.intensity))
        /\ c.type \in {"Takeoff", "Land", "Goto", "Ring"} =>
              /\ wpc[a] = "get"
              /\ \A k \in 1 .. Len(seg) : seg[k].op # "sleep"
              /\ Cardinality({ k \in 1 .. Len(seg) : seg[k].op \in Motion })
                   = IF c.type = "Ring" THEN 0 ELSE 1

\* C16 witness: a worker has taken a Land and then a Ring; the two
\* parameters of the Ring are the last it has sent, after the one call of
\* the Land.
C16_Witness ==
  \E a \in Agents :
    /\ Len(executed[a]) = 2
    /\ executed[a][1].type = "Land" /\ command[a].type = "Ring"
    /\ Len(Segment(a)) = 2
    /\ trace[a][mark[a]] = [op |-> "land", args |-> <<0, 2>>]

----------------------------------------------------------------------------
(* Tables in any order of steps                                            *)

\* C17: for a table with valid cf_ids, sorted by step or not, the puts of
\* control_thread are the entries in the order of the table, each once,
\* on the queue of its cf_id, all of them once control_thread is past its
\* loop; and an entry of a lower step than some entry before it is put in
\* the same tick as the entry just before it, as the very next put.
C17_TableOrder ==
  /\ Cardinality(TablePuts) = pointer
  /\ \A k \in TablePuts :
        /\ enqueued[k].idx = k - 1
        /\ enqueued[k].q = sequence[k][2]
        /\ (k > 1 /\ \E j \in 1 .. k - 1 : sequence[k][1] < sequence[j][1])
              => enqueued[k].tick = enqueued[k - 1].tick
  /\ \A a \in Agents : executed[a] \o controlQueues[a] = Delivered(a)
  /\ (sequence # << >> /\ cpc \in {"quit", "done"}) => pointer = Len(sequence)

\* C17 witness: the second entry of the table has a lower step than the
\* first; both are put, at the tick of the first.
C17_Witness ==
  /\ Len(sequence) >= 2 /\ sequence[2][1] < sequence[1][1]
  /\ Len(enqueued) >= 2
  /\ enqueued[1].tick = sequence[1][1] /\ enqueued[2].tick = sequence[1][1]
  /\ cpc = "done"

\* The place in the table of the j-th entry for Crazyflie a.
EntryOf(a, j) ==
  CHOOSE i \in 1 .. Len(sequence) :
    /\ sequence[i][2] = a
    /\ Cardinality({ m \in 1 .. i : sequence[m][2] = a }) = j

\* The commands of the table that worker a has taken, by their number in
\* its stream.
Taken(a) == { j \in 1 .. Len(executed[a]) : j <= Len(Project(sequence, a)) }

\* C18: no command runs early: an entry is put at a tick that is at least
\* its step, the step counter is at least the tick of every put and never
\* goes down, and so the counter is at least the step of the entry of
\* every command that a worker has taken or that waits in a queue.
C18_NeverEarly ==
  /\ [](/\ \A k \in TablePuts :
              /\ sequence[enqueued[k].idx + 1][1] <= enqueued[k].tick
              /\ enqueued[k].tick <= step
        /\ \A i \in 1 .. Len(sequence) : i <= pointer => sequence[i][1] <= step
        /\ \A a \in Agents : \A j \in Taken(a) :
              /\ executed[a][j] = sequence[EntryOf(a, j)][3]
              /\ EntryOf(a, j) <= pointer
              /\ sequence[EntryOf(a, j)][1] <= step)
  /\ [][step' >= step]_vars

\* C18 witness: a worker has taken the command of an entry of step 2, and
\* the counter is at 2, the tick of its put.
C18_Witness ==
  \E a \in Agents : \E j \in Taken(a) :
    /\ sequence[EntryOf(a, j)][1] = 2
    /\ step = 2

\* C19: for a non-empty table, the cursor is in 0 .. length; whenever
\* control_thread is about to read the entry at the cursor (it is in its
\* loop and the stop flag is down) the cursor is below the length; the
\* stop flag is up exactly when the cursor is the length; and the cursor
\* changes only by a put of an entry, which adds 1.
C19_Cursor ==
  /\ [](sequence # << >> =>
          /\ pointer \in 0 .. Len(sequence)
          /\ (cpc = "run" /\ ~stop) => (0 <= pointer /\ pointer < Len(sequence))
          /\ stop <=> pointer = Len(sequence)
          /\ pointer = Cardinality(TablePuts))
  /\ [][sequence # << >> =>
          /\ pointer' # pointer =>
                /\ pointer' = pointer + 1
                /\ Len(enqueued') = Len(enqueued) + 1
                /\ Last(enqueued').idx = pointer
          /\ (Len(enqueued') > Len(enqueued) /\ Last(enqueued').idx >= 0) =>
                pointer' = pointer + 1]_vars

\* C19 witness: the cursor has gone over a table of two entries and the
\* stop flag is up.
C19_Witness ==
  /\ Len(sequence) = 2 /\ pointer = 2 /\ stop /\ cpc = "run"

====
